---- MODULE Spec2Model ----
(***************************************************************************)
(* A model of bevy_rx: a synchronous reactive graph kept inside a private  *)
(* bevy World (ReactiveContext.reactive_state).  Signals and memos are     *)
(* entities carrying an ObservableData component (data + subscribers);     *)
(* memos additionally carry an RxMemo component (the compute closure), and *)
(* any observable may carry an effect component.  send_signal propagates   *)
(* with an explicit work stack; effects are queued in RxDeferredEffects    *)
(* and run later by apply_deferred_effects.                                *)
(***************************************************************************)
EXTENDS Integers, Sequences, FiniteSets, TLC

(* ------------------------------ bounds -------------------------------- *)
MaxCells == 3          \* entities spawned in the reactive world
MaxVal   == 1          \* values are 0..MaxVal
MaxCalls == 4          \* send_signal / new_deferred_effect / flush calls
MaxWrites == 2         \* send_signal calls when subscribers run in any order
MaxThunks == 2         \* thunks queued when a flush of ThunkSpec starts

Cells   == 1..MaxCells
Vals    == 0..MaxVal
NumVals == MaxVal + 1

\* Components that are not on an entity (Option::None from World::get).
NoData   == -1
NoMemo   == [inputs |-> <<>>, f |-> "none"]
NoEffect == "Absent"
NoCall  == [op |-> "none", cell |-> 0, val |-> 0]
NoStreak == [cell |-> 0, v0 |-> 0, vals |-> <<>>, q0 |-> 0]

VARIABLES
    spawned,       \* number of entities spawned in reactive_state
    handle,        \* handle the user holds for an entity: "none"/"signal"/"memo"
    data,          \* ObservableData.data per entity (NoData: no component)
    subscribers,   \* ObservableData.subscribers per entity (a Vec<Entity>)
    memo,          \* RxMemo component per entity (NoMemo: none / taken)
    effect,        \* effect component per entity: NoEffect / "New" / "Initialized"
    queue,         \* RxDeferredEffects.stack
    stack,         \* send_signal's local work stack
    pc,            \* "idle" | "loop" | "exec" | "flush"
    sub,           \* send_signal's popped subscriber
    calculation,   \* the RxMemo taken out of `sub` while it executes
    effects,       \* apply_deferred_effects' local drained list
    log,           \* main world: what the effect systems have observed
    effect_data,   \* main world: the EffectData resource (NoData: none)
    system,        \* which system an entity's effect holds: 0 none, k the k-th
                   \* registered on the entity
    ran,           \* main world: the effect systems run, in order
    inits,         \* main world: times the system an entity's effect holds
                   \* has been initialized
    nCalls,        \* number of non-constructor public calls made
    call,          \* the public call in progress / last completed
    runs,          \* derive_fn invocations per memo during `call`
    streak,        \* consecutive send_signal calls to one signal
    s1             \* progress of the calls so far through test::basic

vars == <<spawned, handle, data, subscribers, memo, effect, queue, stack, pc,
          sub, calculation, effects, log, effect_data, system, ran, inits, nCalls,
          call, runs, streak, s1>>

(* --------------------------- user functions --------------------------- *)
\* The derive functions the tests and examples use, over the value domain.
UnaryFns  == {"inc", "half"}
BinaryFns == {"and"}

derive_fn(f, args) ==
    CASE f = "inc"  -> (args[1] + 1) % NumVals
      [] f = "half" -> args[1] \div 2
      [] f = "and"  -> (args[1] * args[2]) % NumVals

(* ------------------------- the reactive world ------------------------- *)
\* The part of reactive_state that update_value and read_and_derive touch.
World == [data |-> data, subscribers |-> subscribers, effect |-> effect,
          queue |-> queue, runs |-> runs, log |-> log,
          effect_data |-> effect_data, system |-> system, ran |-> ran,
          inits |-> inits]

\* A subscribe that records every subscriber on the oldest entity.
subscribe_first(w, observable, entity) ==
    [w EXCEPT !.subscribers[1] = Append(@, entity)]

\* A subscribe that forgets the subscriber.
subscribe_forgets(w, observable, entity) == w

\* ObservableData::subscribe.
subscribe(w, observable, entity) ==
    [w EXCEPT !.subscribers[observable] = Append(@, entity)]

\* An effect queue that keeps at most one thunk per observable.
queue_effect_once(w, observable, value) ==
    IF w.effect[observable] # NoEffect
       /\ \A i \in 1..Len(w.queue) : w.queue[i].observable # observable
    THEN [w EXCEPT !.queue =
              Append(@, [observable |-> observable, value |-> value])]
    ELSE w

\* An effect that is run on the spot instead of being queued.
queue_effect_inline(w, observable, value) ==
    IF w.effect[observable] # NoEffect
    THEN [w EXCEPT !.log =
              Append(@, [observable |-> observable, value |-> value])]
    ELSE w

\* observable.rs 69-82: an observable that carries an effect component gets
\* a thunk pushed on RxDeferredEffects.stack; the closure captures the
\* entity and a clone of the value.  (The queued entry keeps both; what a
\* thunk does when it is run is the closure of RxDeferredEffects::push,
\* the only one whose type apply_deferred_effects can call: run_thunk.)
queue_effect(w, observable, value) ==
    IF w.effect[observable] # NoEffect
    THEN [w EXCEPT !.queue =
              Append(@, [observable |-> observable, value |-> value])]
    ELSE w

\* update_value without the diff: every update overwrites and propagates.
update_value_nodiff(w, st, observable, value) ==
    IF w.data[observable] # NoData
    THEN [w |-> queue_effect(
                  [w EXCEPT !.data[observable] = value,
                            !.subscribers[observable] = <<>>],
                  observable, value),
          stack |-> st \o w.subscribers[observable]]
    ELSE [w |-> queue_effect(
                  [w EXCEPT !.data[observable] = value,
                            !.subscribers[observable] = <<>>],
                  observable, value),
          stack |-> st]

\* update_value that propagates a change without storing the new value.
update_value_nostore(w, st, observable, value) ==
    IF w.data[observable] # NoData
    THEN IF w.data[observable] = value
         THEN [w |-> w, stack |-> st]
         ELSE [w |-> queue_effect(
                       [w EXCEPT !.subscribers[observable] = <<>>],
                       observable, value),
               stack |-> st \o w.subscribers[observable]]
    ELSE [w |-> queue_effect(
                  [w EXCEPT !.data[observable] = value,
                            !.subscribers[observable] = <<>>],
                  observable, value),
          stack |-> st]

\* update_value that clears the subscribers without pushing them.
update_value_nopush(w, st, observable, value) ==
    IF w.data[observable] # NoData
    THEN IF w.data[observable] = value
         THEN [w |-> w, stack |-> st]
         ELSE [w |-> queue_effect(
                       [w EXCEPT !.data[observable] = value,
                                 !.subscribers[observable] = <<>>],
                       observable, value),
               stack |-> st]
    ELSE [w |-> queue_effect(
                  [w EXCEPT !.data[observable] = value,
                            !.subscribers[observable] = <<>>],
                  observable, value),
          stack |-> st]

\* update_value that queues a thunk for every entity it gives a value to.
update_value_announces(w, st, observable, value) ==
    IF w.data[observable] # NoData
    THEN IF w.data[observable] = value
         THEN [w |-> w, stack |-> st]
         ELSE [w |-> queue_effect(
                       [w EXCEPT !.data[observable] = value,
                                 !.subscribers[observable] = <<>>],
                       observable, value),
               stack |-> st \o w.subscribers[observable]]
    ELSE [w |-> [w EXCEPT !.data[observable] = value,
                          !.subscribers[observable] = <<>>,
                          !.queue = Append(@, [observable |-> observable,
                                               value |-> value])],
          stack |-> st]

\* update_value that pushes a copy of the subscribers and keeps the list.
update_value_keeps(w, st, observable, value) ==
    IF w.data[observable] # NoData
    THEN IF w.data[observable] = value
         THEN [w |-> w, stack |-> st]
         ELSE [w |-> queue_effect(
                       [w EXCEPT !.data[observable] = value],
                       observable, value),
               stack |-> st \o w.subscribers[observable]]
    ELSE [w |-> queue_effect(
                  [w EXCEPT !.data[observable] = value,
                            !.subscribers[observable] = <<>>],
                  observable, value),
          stack |-> st]

\* ObservableData::update_value.  Returns the world and the work stack.
update_value(w, st, observable, value) ==
    IF w.data[observable] # NoData
    THEN IF w.data[observable] = value
         THEN [w |-> w, stack |-> st]              \* diff: early exit
         ELSE [w |-> queue_effect(
                       [w EXCEPT !.data[observable] = value,
                                 !.subscribers[observable] = <<>>],
                       observable, value),
               stack |-> st \o w.subscribers[observable]]
    ELSE [w |-> queue_effect(
                  [w EXCEPT !.data[observable] = value,
                            !.subscribers[observable] = <<>>],
                  observable, value),
          stack |-> st]

\* `get_mut::<RxObservableData<T>>()` through a handle.  A handle -c names
\* entity c with a DataType the entity's component does not have (a handle
\* made by another ReactiveContext): the typed lookup finds nothing.
get_data(w, h) == IF h \in Cells THEN w.data[h] ELSE NoData

\* The `$($I.get_mut::<..>()?.subscribe(reader);)*` line of read_and_derive:
\* inputs are subscribed left to right, `?` leaves at the first input
\* that has no ObservableData.
RECURSIVE subscribe_inputs(_, _, _, _)
subscribe_inputs(w, reader, inputs, i) ==
    IF i > Len(inputs) THEN [w |-> w, ok |-> TRUE]
    ELSE IF get_data(w, inputs[i]) = NoData THEN [w |-> w, ok |-> FALSE]
    ELSE subscribe_inputs(subscribe(w, inputs[i], reader), reader, inputs, i + 1)

\* MemoQuery::read_and_derive.  value = NoData models Option::None.
read_and_derive(w, reader, f, inputs) ==
    LET s == subscribe_inputs(w, reader, inputs, 1) IN
    IF s.ok
    THEN [w |-> [s.w EXCEPT !.runs[reader] = @ + 1],
          value |-> derive_fn(f, [i \in 1..Len(inputs) |-> s.w.data[inputs[i]]])]
    ELSE [w |-> s.w, value |-> NoData]

\* The closure built by RxMemo::new, as run by RxMemo::execute.
execute(w, st, entity, m) ==
    LET r == read_and_derive(w, entity, m.f, m.inputs) IN
    IF r.value # NoData
    THEN update_value(r.w, st, entity, r.value)
    ELSE [w |-> r.w, stack |-> st]

\* Number of queued thunks for one observable.
Thunks(q, c) == Cardinality({i \in 1..Len(q) : q[i].observable = c})

NoRuns == [c \in Cells |-> 0]

(* ------------------- the two-button lock of test::basic -------------- *)
\* The calls of the scenario, in order: button1 = new_signal(OFF),
\* button2 = new_signal(OFF), lock1 = new_memo((button1, button2),
\* two_buttons), send_signal(button1, ON), send_signal(button2, ON), then
\* send_signal(button1, ON) again and again.  S1Step is the position after
\* one more call, -1 once the calls made are not the scenario's.
S1Dead == [step |-> -1, invoked |-> 0]

S1Step(op, x, y) ==
    CASE s1.step = 0 /\ op = "new_signal" /\ y = 0 -> 1
      [] s1.step = 1 /\ op = "new_signal" /\ y = 0 -> 2
      [] s1.step = 2 /\ op = "new_memo" /\ x = <<1, 2>> /\ y = "and" -> 3
      [] s1.step = 3 /\ op = "send_signal" /\ x = 1 /\ y = 1 -> 4
      [] s1.step = 4 /\ op = "send_signal" /\ x = 2 /\ y = 1 -> 5
      [] s1.step \in {5, 6} /\ op = "send_signal" /\ x = 1 /\ y = 1 -> 6
      [] OTHER -> -1

\* The scenario's position and its count of two_buttons invocations ("Recomputing
\* lock") after a public call that made n invocations before returning.
S1Call(op, x, y, n) ==
    IF S1Step(op, x, y) = -1 THEN S1Dead
    ELSE [step |-> S1Step(op, x, y), invoked |-> s1.invoked + n]

\* The count after n more invocations inside send_signal's loop.
S1Invoked(n) ==
    IF s1.step = -1 THEN s1 ELSE [s1 EXCEPT !.invoked = @ + n]

(* ------------------------------- Init --------------------------------- *)
\* ReactiveContext::default(): an empty world with an empty RxDeferredEffects.
Init ==
    /\ spawned = 0
    /\ handle = [c \in Cells |-> "none"]
    /\ data = [c \in Cells |-> NoData]
    /\ subscribers = [c \in Cells |-> <<>>]
    /\ memo = [c \in Cells |-> NoMemo]
    /\ effect = [c \in Cells |-> NoEffect]
    /\ queue = <<>>
    /\ stack = <<>>
    /\ pc = "idle"
    /\ sub = 0
    /\ calculation = NoMemo
    /\ effects = <<>>
    /\ log = <<>>
    /\ effect_data = NoData
    /\ system = [c \in Cells |-> 0]
    /\ ran = <<>>
    /\ inits = [c \in Cells |-> 0]
    /\ nCalls = 0
    /\ call = NoCall
    /\ runs = NoRuns
    /\ streak = NoStreak
    /\ s1 = [step |-> 0, invoked |-> 0]

\* Writes the world record back to the variables it was built from.
Store(w) ==
    /\ data' = w.data
    /\ subscribers' = w.subscribers
    /\ effect' = w.effect
    /\ queue' = w.queue
    /\ runs' = w.runs
    /\ log' = w.log
    /\ effect_data' = w.effect_data
    /\ system' = w.system
    /\ ran' = w.ran
    /\ inits' = w.inits

(* ------------------------------ actions ------------------------------- *)
\* ReactiveContext::new_signal -> Signal::new -> ObservableData::new.
NewSignal(v) ==
    /\ pc = "idle"
    /\ spawned < MaxCells
    /\ LET id == spawned + 1 IN
       /\ spawned' = id
       /\ handle' = [handle EXCEPT ![id] = "signal"]
       /\ data' = [data EXCEPT ![id] = v]
       /\ subscribers' = [subscribers EXCEPT ![id] = <<>>]
       /\ call' = [op |-> "new_signal", cell |-> id, val |-> v]
       /\ s1' = S1Call("new_signal", id, v, 0)
    /\ runs' = NoRuns
    /\ streak' = NoStreak
    /\ UNCHANGED <<memo, effect, queue, stack, pc, sub, calculation, effects,
                   log, effect_data,
                   system, ran, inits, nCalls>>

\* The input tuples a memo can be declared over: existing observables,
\* pairwise distinct (get_many_entities_mut rejects duplicates).
Observables == {c \in Cells : handle[c] # "none"}

InputTuples ==
    {<<a>> : a \in Observables}
    \cup {t \in {<<a, b>> : a \in Observables, b \in Observables} : t[1] < t[2]}

\* ReactiveContext::new_memo -> Memo::new.
NewMemo(inputs, f) ==
    /\ pc = "idle"
    /\ spawned < MaxCells
    /\ f \in (IF Len(inputs) = 1 THEN UnaryFns ELSE BinaryFns)
    /\ LET id == spawned + 1
           derived == [inputs |-> inputs, f |-> f]
           r == execute([World EXCEPT !.runs = NoRuns], <<>>, id, derived)
       IN
       /\ spawned' = id
       /\ handle' = [handle EXCEPT ![id] = "memo"]
       /\ Store(r.w)
       /\ memo' = [memo EXCEPT ![id] = derived]
       /\ call' = [op |-> "new_memo", cell |-> id, val |-> 0]
       /\ s1' = S1Call("new_memo", inputs, f, r.w.runs[id])
    /\ streak' = NoStreak
    /\ UNCHANGED <<stack, pc, sub, calculation, effects, nCalls>>

\* Input tuples holding one handle made by another ReactiveContext, which
\* names some entity index of this world.
ForeignTuples ==
    {<<-c>> : c \in Cells}
    \cup {t \in {<<a, -c>> : a \in Observables, c \in Cells} : t[1] # -t[2]}
    \cup {t \in {<<-c, a>> : a \in Observables, c \in Cells} : t[2] # -t[1]}

\* The entity a handle names.
reactive_entity(h) == IF h < 0 THEN -h ELSE h

\* new_memo over a tuple of ForeignTuples.  `get_many_entities_mut(..)
\* .unwrap()` panics when an entity does not exist; otherwise the closure
\* runs as for any memo and the RxMemo is inserted.
NewMemoForeign(inputs, f) ==
    /\ pc = "idle"
    /\ spawned < MaxCells
    /\ f \in (IF Len(inputs) = 1 THEN UnaryFns ELSE BinaryFns)
    /\ LET id == spawned + 1
           derived == [inputs |-> inputs, f |-> f]
           r == execute([World EXCEPT !.runs = NoRuns], <<>>, id, derived)
       IN
       /\ spawned' = id
       /\ call' = [op |-> "new_memo", cell |-> id, val |-> 0]
       /\ IF \E i \in 1..Len(inputs) : reactive_entity(inputs[i]) > id
          THEN /\ pc' = "panicked"
               /\ runs' = NoRuns
               /\ UNCHANGED <<handle, data, subscribers, effect, queue, log, effect_data,
                   system, ran, inits,
                              memo>>
          ELSE /\ handle' = [handle EXCEPT ![id] = "memo"]
               /\ Store(r.w)
               /\ memo' = [memo EXCEPT ![id] = derived]
               /\ pc' = pc
    /\ streak' = NoStreak
    /\ s1' = S1Dead
    /\ UNCHANGED <<stack, sub, calculation, effects, nCalls>>

\* The tuples that name one observable twice (Memo<T> and Signal<T> are
\* Copy, so the same handle can be given for both inputs).
DuplicateTuples == {<<a, a>> : a \in Observables}

\* The Err(AliasedMutability) of get_many_entities_mut: some entity is
\* named more than once.
aliased(entities) ==
    \E i \in 1..Len(entities), j \in 1..Len(entities) :
        i # j /\ entities[i] = entities[j]

\* A creation whose lookup accepts a repeated entity.
NewMemoDuplicate_installs(inputs, f) ==
    /\ pc = "idle"
    /\ spawned < MaxCells
    /\ f \in BinaryFns
    /\ LET id == spawned + 1
           derived == [inputs |-> inputs, f |-> f]
           r == execute([World EXCEPT !.runs = NoRuns], <<>>, id, derived)
       IN
       /\ spawned' = id
       /\ call' = [op |-> "new_memo", cell |-> id, val |-> 0]
       /\ handle' = [handle EXCEPT ![id] = "memo"]
       /\ Store(r.w)
       /\ memo' = [memo EXCEPT ![id] = derived]
       /\ pc' = pc
    /\ streak' = NoStreak
    /\ s1' = S1Dead
    /\ UNCHANGED <<stack, sub, calculation, effects, nCalls>>

\* new_memo over a tuple of DuplicateTuples.  Memo::new spawns the entity
\* and executes the new RxMemo; read_and_derive looks all inputs up at
\* once and unwraps the result before it subscribes to any of them, so a
\* repeated entity panics there: nothing is subscribed, update_value is
\* not reached, the RxMemo is dropped and no handle is returned.
NewMemoDuplicate(inputs, f) ==
    /\ pc = "idle"
    /\ spawned < MaxCells
    /\ f \in BinaryFns
    /\ LET id == spawned + 1
           derived == [inputs |-> inputs, f |-> f]
           r == execute([World EXCEPT !.runs = NoRuns], <<>>, id, derived)
       IN
       /\ spawned' = id
       /\ call' = [op |-> "new_memo", cell |-> id, val |-> 0]
       /\ IF aliased(inputs)
          THEN /\ pc' = "panicked"
               /\ runs' = NoRuns
               /\ UNCHANGED <<handle, data, subscribers, effect, queue, log,
                              effect_data, system, ran, inits, memo>>
          ELSE /\ handle' = [handle EXCEPT ![id] = "memo"]
               /\ Store(r.w)
               /\ memo' = [memo EXCEPT ![id] = derived]
               /\ pc' = pc
    /\ streak' = NoStreak
    /\ s1' = S1Dead
    /\ UNCHANGED <<stack, sub, calculation, effects, nCalls>>

\* A registration that keeps the effect an entity already has.
NewDeferredEffect_first_wins(c) ==
    /\ pc = "idle"
    /\ nCalls < MaxCalls
    /\ handle[c] # "none"
    /\ effect' = [effect EXCEPT ![c] = IF @ = NoEffect THEN "New" ELSE @]
    /\ system' = [system EXCEPT ![c] = IF @ = 0 THEN 1 ELSE @]
    /\ inits' = [inits EXCEPT ![c] = IF effect[c] = NoEffect THEN 0 ELSE @]
    /\ nCalls' = nCalls + 1
    /\ call' = [op |-> "new_deferred_effect", cell |-> c, val |-> 0]
    /\ s1' = S1Dead
    /\ runs' = NoRuns
    /\ streak' = NoStreak
    /\ UNCHANGED <<spawned, handle, data, subscribers, memo, queue, stack, pc,
                   sub, calculation, effects, log, effect_data, ran>>

\* A registration that queues a first thunk for the value the cell has.
NewDeferredEffect_eager(c) ==
    /\ pc = "idle"
    /\ nCalls < MaxCalls
    /\ handle[c] # "none"
    /\ effect' = [effect EXCEPT ![c] = "New"]
    /\ system' = [system EXCEPT ![c] = @ + 1]
    /\ inits' = [inits EXCEPT ![c] = 0]
    /\ queue' = Append(queue, [observable |-> c, value |-> data[c]])
    /\ nCalls' = nCalls + 1
    /\ call' = [op |-> "new_deferred_effect", cell |-> c, val |-> 0]
    /\ s1' = S1Dead
    /\ runs' = NoRuns
    /\ streak' = NoStreak
    /\ UNCHANGED <<spawned, handle, data, subscribers, memo, stack, pc,
                   sub, calculation, effects, log, effect_data, ran>>

\* ReactiveContext::new_deferred_effect -> Effect::new_deferred.
NewDeferredEffect(c) ==
    /\ pc = "idle"
    /\ nCalls < MaxCalls
    /\ handle[c] # "none"
    /\ effect' = [effect EXCEPT ![c] = "New"]
    /\ system' = [system EXCEPT ![c] = @ + 1]
    /\ inits' = [inits EXCEPT ![c] = 0]
    /\ nCalls' = nCalls + 1
    /\ call' = [op |-> "new_deferred_effect", cell |-> c, val |-> 0]
    /\ s1' = S1Dead
    /\ runs' = NoRuns
    /\ streak' = NoStreak
    /\ UNCHANGED <<spawned, handle, data, subscribers, memo, queue, stack, pc,
                   sub, calculation, effects, log, effect_data, ran>>

\* ReactiveContext::send_signal -> ObservableData::send_signal, up to the
\* first evaluation of the loop condition.
SendSignal(s, v) ==
    /\ pc = "idle"
    /\ nCalls < MaxCalls
    /\ handle[s] = "signal"
    /\ LET r == update_value([World EXCEPT !.runs = NoRuns], <<>>, s, v) IN
       /\ Store(r.w)
       /\ stack' = r.stack
       /\ pc' = IF r.stack = <<>> THEN "idle" ELSE "loop"
    /\ nCalls' = nCalls + 1
    /\ call' = [op |-> "send_signal", cell |-> s, val |-> v]
    /\ s1' = S1Call("send_signal", s, v, 0)
    /\ streak' = IF streak.cell = s
                 THEN [streak EXCEPT !.vals = Append(@, v)]
                 ELSE [cell |-> s, v0 |-> data[s], vals |-> <<v>>,
                       q0 |-> Thunks(queue, s)]
    /\ UNCHANGED <<spawned, handle, memo, sub, calculation, effects>>

\* A loop head that clones the RxMemo and leaves it on the entity.
Pop_peek ==
    /\ pc = "loop"
    /\ stack # <<>>
    /\ LET top == stack[Len(stack)]
           rest == SubSeq(stack, 1, Len(stack) - 1)
       IN
       /\ sub' = top
       /\ stack' = rest
       /\ IF memo[top] # NoMemo
          THEN /\ calculation' = memo[top]
               /\ memo' = memo
               /\ pc' = "exec"
          ELSE /\ UNCHANGED <<calculation, memo>>
               /\ pc' = IF rest = <<>> THEN "idle" ELSE "loop"
    /\ UNCHANGED <<spawned, handle, data, subscribers, effect, queue, effects,
                   log, effect_data,
                   system, ran, inits, nCalls, call, runs, streak, s1>>

\* A loop head that takes the oldest pending entry (a queue for a stack).
Pop_fifo ==
    /\ pc = "loop"
    /\ stack # <<>>
    /\ LET top == Head(stack)
           rest == Tail(stack)
       IN
       /\ sub' = top
       /\ stack' = rest
       /\ IF memo[top] # NoMemo
          THEN /\ calculation' = memo[top]
               /\ memo' = [memo EXCEPT ![top] = NoMemo]
               /\ pc' = "exec"
          ELSE /\ UNCHANGED <<calculation, memo>>
               /\ pc' = IF rest = <<>> THEN "idle" ELSE "loop"
    /\ UNCHANGED <<spawned, handle, data, subscribers, effect, queue, effects,
                   log, effect_data,
                   system, ran, inits, nCalls, call, runs, streak, s1>>

\* send_signal's loop head: `stack.pop()` and `take::<RxMemo>()`.
Pop ==
    /\ pc = "loop"
    /\ stack # <<>>
    /\ LET top == stack[Len(stack)]
           rest == SubSeq(stack, 1, Len(stack) - 1)
       IN
       /\ sub' = top
       /\ stack' = rest
       /\ IF memo[top] # NoMemo
          THEN /\ calculation' = memo[top]
               /\ memo' = [memo EXCEPT ![top] = NoMemo]
               /\ pc' = "exec"
          ELSE /\ UNCHANGED <<calculation, memo>>
               /\ pc' = IF rest = <<>> THEN "idle" ELSE "loop"
    /\ UNCHANGED <<spawned, handle, data, subscribers, effect, queue, effects,
                   log, effect_data,
                   system, ran, inits, nCalls, call, runs, streak, s1>>

\* The sequence q without its i-th element.
Remove(q, i) == SubSeq(q, 1, i - 1) \o SubSeq(q, i + 1, Len(q))

\* A loop head that discards the entries above the one it takes.
PopAny_truncates(i) ==
    /\ pc = "loop"
    /\ i \in 1..Len(stack)
    /\ LET top == stack[i]
           rest == SubSeq(stack, 1, i - 1)
       IN
       /\ sub' = top
       /\ stack' = rest
       /\ IF memo[top] # NoMemo
          THEN /\ calculation' = memo[top]
               /\ memo' = [memo EXCEPT ![top] = NoMemo]
               /\ pc' = "exec"
          ELSE /\ UNCHANGED <<calculation, memo>>
               /\ pc' = IF rest = <<>> THEN "idle" ELSE "loop"
    /\ UNCHANGED <<spawned, handle, data, subscribers, effect, queue, effects,
                   log, effect_data,
                   system, ran, inits, nCalls, call, runs, streak, s1>>

\* The loop head when pending subscribers are taken in any order, as with
\* the HashSet of SignalData or any other order of the subscriber Vecs:
\* the i-th pending entry is executed next.
PopAny(i) ==
    /\ pc = "loop"
    /\ i \in 1..Len(stack)
    /\ LET top == stack[i]
           rest == Remove(stack, i)
       IN
       /\ sub' = top
       /\ stack' = rest
       /\ IF memo[top] # NoMemo
          THEN /\ calculation' = memo[top]
               /\ memo' = [memo EXCEPT ![top] = NoMemo]
               /\ pc' = "exec"
          ELSE /\ UNCHANGED <<calculation, memo>>
               /\ pc' = IF rest = <<>> THEN "idle" ELSE "loop"
    /\ UNCHANGED <<spawned, handle, data, subscribers, effect, queue, effects,
                   log, effect_data,
                   system, ran, inits, nCalls, call, runs, streak, s1>>

\* A loop body that returns after the first subscriber (`if let` for
\* `while let`).
Exec_once ==
    /\ pc = "exec"
    /\ LET r == execute(World, stack, sub, calculation) IN
       /\ Store(r.w)
       /\ stack' = r.stack
       /\ pc' = "idle"
       /\ s1' = S1Invoked(r.w.runs[sub] - runs[sub])
    /\ memo' = [memo EXCEPT ![sub] = calculation]
    /\ calculation' = NoMemo
    /\ UNCHANGED <<spawned, handle, sub, effects, nCalls, call, streak>>

\* send_signal's loop body: `calculation.execute(world, &mut stack)` and
\* the re-insertion of the RxMemo, then the next loop condition.
Exec ==
    /\ pc = "exec"
    /\ LET r == execute(World, stack, sub, calculation) IN
       /\ Store(r.w)
       /\ stack' = r.stack
       /\ pc' = IF r.stack = <<>> THEN "idle" ELSE "loop"
       /\ s1' = S1Invoked(r.w.runs[sub] - runs[sub])
    /\ memo' = [memo EXCEPT ![sub] = calculation]
    /\ calculation' = NoMemo
    /\ UNCHANGED <<spawned, handle, sub, effects, nCalls, call, streak>>

\* send_signal's loop body when derive_fn panics: read_and_derive has
\* subscribed the memo to its inputs, update_value is not reached, and the
\* unwinding drops `calculation` and send_signal's `stack`.
ExecPanics ==
    /\ pc = "exec"
    /\ LET s == subscribe_inputs(World, sub, calculation.inputs, 1) IN
       /\ s.ok
       /\ Store(s.w)
    /\ calculation' = NoMemo
    /\ stack' = <<>>
    /\ pc' = "panicked"
    /\ UNCHANGED <<spawned, handle, memo, sub, effects, nCalls, call, streak,
                   s1>>

\* A flush that iterates over a copy of the queue and leaves the queue.
ApplyDeferredEffects_copies ==
    /\ pc = "idle"
    /\ nCalls < MaxCalls
    /\ effects' = queue
    /\ queue' = queue
    /\ pc' = IF queue = <<>> THEN "idle" ELSE "flush"
    /\ nCalls' = nCalls + 1
    /\ call' = [op |-> "flush", cell |-> 0, val |-> 0]
    /\ s1' = S1Dead
    /\ runs' = NoRuns
    /\ streak' = NoStreak
    /\ UNCHANGED <<spawned, handle, data, subscribers, memo, effect, stack,
                   sub, calculation, log, effect_data,
                   system, ran, inits>>

\* ReactiveExtensionsPlugin::apply_deferred_effects: mem::take of the queue.
ApplyDeferredEffects ==
    /\ pc = "idle"
    /\ nCalls < MaxCalls
    /\ effects' = queue
    /\ queue' = <<>>
    /\ pc' = IF queue = <<>> THEN "idle" ELSE "flush"
    /\ nCalls' = nCalls + 1
    /\ call' = [op |-> "flush", cell |-> 0, val |-> 0]
    /\ s1' = S1Dead
    /\ runs' = NoRuns
    /\ streak' = NoStreak
    /\ UNCHANGED <<spawned, handle, data, subscribers, memo, effect, stack,
                   sub, calculation, log, effect_data,
                   system, ran, inits>>

\* A run that initializes the system every time it is run.
EffectSystem_run_reinit(sys) ==
    CASE sys = "Empty" -> [system |-> "Empty", initialize |-> 0, run |-> FALSE]
      [] sys = "New" -> [system |-> "Initialized", initialize |-> 1,
                         run |-> TRUE]
      [] sys = "Initialized" -> [system |-> "Initialized", initialize |-> 1,
                                 run |-> TRUE]

\* EffectSystem::run: the slot is taken (Empty is left in its place); an
\* Empty slot returns at once, a New system is initialized, an Initialized
\* one is used as it is; the system runs and goes back as Initialized.
\* The result names the slot afterwards, the initialize calls made and
\* whether the system ran.
EffectSystem_run(sys) ==
    CASE sys = "Empty" -> [system |-> "Empty", initialize |-> 0, run |-> FALSE]
      [] sys = "New" -> [system |-> "Initialized", initialize |-> 1,
                         run |-> TRUE]
      [] sys = "Initialized" -> [system |-> "Initialized", initialize |-> 0,
                                 run |-> TRUE]

\* A thunk that does not put the value back when the effect is missing.
run_thunk_drops(w, observable) ==
    IF w.data[observable] = NoData THEN w
    ELSE IF w.effect[observable] = NoEffect
    THEN [w EXCEPT !.data[observable] = NoData,
                   !.subscribers[observable] = <<>>]
    ELSE LET r == EffectSystem_run(w.effect[observable])
             ranIt == IF r.run
                      THEN [w EXCEPT
                              !.log = Append(@, [observable |-> observable,
                                                 value |-> w.data[observable]]),
                              !.ran = Append(@, [observable |-> observable,
                                                 system |-> w.system[observable]])]
                      ELSE w
         IN [ranIt EXCEPT !.inits[observable] = @ + r.initialize,
                          !.effect[observable] = r.system]

\* A thunk that puts the value back in a fresh ObservableData.
run_thunk_fresh(w, observable) ==
    IF w.data[observable] = NoData THEN w
    ELSE IF w.effect[observable] = NoEffect THEN w
    ELSE [w EXCEPT !.log = Append(@, [observable |-> observable,
                                      value |-> w.data[observable]]),
                   !.subscribers[observable] = <<>>,
                   !.effect[observable] = "Initialized"]

\* The thunk built by RxDeferredEffects::push, run against both worlds:
\* the ObservableData is taken off the entity (nothing happens without
\* it), then the effect (without it the ObservableData goes back and
\* nothing else happens); the data is put in the main world as EffectData,
\* the effect system runs (it reads EffectData and records it in the main
\* world), then EffectData is removed and data, subscribers and effect go
\* back on the entity.
run_thunk(w, observable) ==
    IF w.data[observable] = NoData THEN w
    ELSE LET value == [data |-> w.data[observable],
                       subscribers |-> w.subscribers[observable]]
             without == [w EXCEPT !.data[observable] = NoData,
                                  !.subscribers[observable] = <<>>]
         IN IF without.effect[observable] = NoEffect
            THEN [without EXCEPT !.data[observable] = value.data,
                                 !.subscribers[observable] = value.subscribers]
            ELSE LET r == EffectSystem_run(without.effect[observable])
                     taken == [without EXCEPT !.effect[observable] = NoEffect,
                                              !.effect_data = value.data]
                     done == IF r.run
                             THEN [taken EXCEPT
                                     !.log = Append(@,
                                               [observable |-> observable,
                                                value |-> taken.effect_data]),
                                     !.ran = Append(@,
                                               [observable |-> observable,
                                                system |->
                                                  w.system[observable]]),
                                     !.inits[observable] = @ + r.initialize]
                             ELSE taken
                 IN [done EXCEPT !.effect_data = NoData,
                                 !.data[observable] = done.effect_data,
                                 !.subscribers[observable] = value.subscribers,
                                 !.effect[observable] = r.system]

\* A drain whose thunks show the effect the value captured when queued.
RunEffect_queued ==
    /\ pc = "flush"
    /\ effects # <<>>
    /\ Store([run_thunk(World, Head(effects).observable)
                EXCEPT !.log = Append(log, Head(effects))])
    /\ effects' = Tail(effects)
    /\ pc' = IF Tail(effects) = <<>> THEN "idle" ELSE "flush"
    /\ UNCHANGED <<spawned, handle, memo, stack, sub, calculation, nCalls,
                   call, streak, s1>>

\* A drain that treats the list as the stack its field name suggests.
RunEffect_lifo ==
    /\ pc = "flush"
    /\ effects # <<>>
    /\ Store(run_thunk(World, effects[Len(effects)].observable))
    /\ effects' = SubSeq(effects, 1, Len(effects) - 1)
    /\ pc' = IF Len(effects) = 1 THEN "idle" ELSE "flush"
    /\ UNCHANGED <<spawned, handle, memo, stack, sub, calculation, nCalls,
                   call, streak, s1>>

\* One iteration of `for effect in effects.drain(..)`.
RunEffect ==
    /\ pc = "flush"
    /\ effects # <<>>
    /\ Store(run_thunk(World, Head(effects).observable))
    /\ effects' = Tail(effects)
    /\ pc' = IF Tail(effects) = <<>> THEN "idle" ELSE "flush"
    /\ UNCHANGED <<spawned, handle, memo, stack, sub, calculation, nCalls,
                   call, streak, s1>>

\* ReactiveContext::read / Memo::read: the stored data of the observable.
read(observable) == data[observable]

\* A read that also records a subscription on the observable it reads.
Read_subscribes(h) ==
    /\ pc = "idle"
    /\ handle[h] # "none"
    /\ call' = [op |-> "read", cell |-> h, val |-> read(h)]
    /\ subscribers' = [subscribers EXCEPT ![h] = Append(@, h)]
    /\ UNCHANGED <<spawned, handle, data, memo, effect, queue, stack,
                   pc, sub, calculation, effects, log, effect_data,
                   system, ran, inits, nCalls, runs, streak, s1>>

\* A call of ReactiveContext::read (or Memo::read) on a handle.
Read(h) ==
    /\ pc = "idle"
    /\ handle[h] # "none"
    /\ call' = [op |-> "read", cell |-> h, val |-> read(h)]
    /\ UNCHANGED <<spawned, handle, data, subscribers, memo, effect, queue, stack,
                   pc, sub, calculation, effects, log, effect_data,
                   system, ran, inits, nCalls, runs, streak, s1>>

Next ==
    \/ \E v \in Vals : NewSignal(v)
    \/ \E inputs \in InputTuples, f \in UnaryFns \cup BinaryFns :
           NewMemo(inputs, f)
    \/ \E c \in Cells : NewDeferredEffect(c)
    \/ \E s \in Cells, v \in Vals : SendSignal(s, v)
    \/ Pop
    \/ Exec
    \/ ApplyDeferredEffects
    \/ RunEffect

Spec == Init /\ [][Next]_vars

\* The same program with the calls of read made explicit.
NextRead ==
    \/ Next
    \/ \E h \in Cells : Read(h)

ReadSpec == Init /\ [][NextRead]_vars

\* Graph building and propagation when handles of another context are
\* passed to new_memo.
NextForeign ==
    \/ \E v \in Vals : NewSignal(v)
    \/ \E inputs \in InputTuples, f \in UnaryFns \cup BinaryFns :
            NewMemo(inputs, f)
    \/ \E inputs \in ForeignTuples, f \in UnaryFns \cup BinaryFns :
            NewMemoForeign(inputs, f)
    \/ \E s \in Cells, v \in Vals : SendSignal(s, v)
    \/ Pop
    \/ Exec

ForeignSpec == Init /\ [][NextForeign]_vars

\* Graph building and propagation with derive functions that may panic.
NextPanic ==
    \/ \E v \in Vals : NewSignal(v)
    \/ \E inputs \in InputTuples, f \in UnaryFns \cup BinaryFns :
            NewMemo(inputs, f)
    \/ \E s \in Cells, v \in Vals : SendSignal(s, v)
    \/ Pop
    \/ Exec
    \/ ExecPanics

PanicSpec == Init /\ [][NextPanic]_vars

\* Graph building and propagation with the pending subscribers executed
\* in any order.
NextAnyOrder ==
    \/ \E v \in Vals : NewSignal(v)
    \/ \E inputs \in InputTuples, f \in UnaryFns \cup BinaryFns :
            NewMemo(inputs, f)
    \/ \E s \in Cells, v \in Vals : nCalls < MaxWrites /\ SendSignal(s, v)
    \/ \E i \in 1..Len(stack) : PopAny(i)
    \/ Exec

AnyOrderSpec == Init /\ [][NextAnyOrder]_vars

\* Graph building and propagation with memos declared over a repeated
\* input as well.
NextDuplicate ==
    \/ \E v \in Vals : NewSignal(v)
    \/ \E inputs \in InputTuples, f \in UnaryFns \cup BinaryFns :
            NewMemo(inputs, f)
    \/ \E inputs \in DuplicateTuples, f \in BinaryFns :
            NewMemoDuplicate(inputs, f)
    \/ \E s \in Cells, v \in Vals : SendSignal(s, v)
    \/ Pop
    \/ Exec

DuplicateSpec == Init /\ [][NextDuplicate]_vars

\* The thunk of RxDeferredEffects::push and EffectSystem::run taken as
\* functions of the two worlds: MaxThunks queued thunks, and on every
\* entity an ObservableData that is there or not and an effect that is
\* missing, holds a New system or holds an Empty slot (Initialized is
\* the state a run leaves behind).  An entity that has its ObservableData
\* has one subscriber; no system has been initialized.
ThunkInit ==
    /\ spawned = MaxCells
    /\ handle = [c \in Cells |-> "signal"]
    /\ data \in [Cells -> Vals \cup {NoData}]
    /\ subscribers = [c \in Cells |->
                        IF data[c] = NoData THEN <<>>
                        ELSE <<(c % MaxCells) + 1>>]
    /\ memo = [c \in Cells |-> NoMemo]
    /\ effect \in [Cells -> {NoEffect, "Empty", "New"}]
    /\ queue \in [1..MaxThunks -> [observable : Cells, value : {0}]]
    /\ stack = <<>>
    /\ pc = "idle"
    /\ sub = 0
    /\ calculation = NoMemo
    /\ effects = <<>>
    /\ log = <<>>
    /\ effect_data = NoData
    /\ system = [c \in Cells |-> IF effect[c] = NoEffect THEN 0 ELSE 1]
    /\ ran = <<>>
    /\ inits = [c \in Cells |-> 0]
    /\ nCalls = 0
    /\ call = NoCall
    /\ runs = NoRuns
    /\ streak = NoStreak
    /\ s1 = S1Dead

ThunkNext ==
    \/ ApplyDeferredEffects
    \/ RunEffect

ThunkSpec == ThunkInit /\ [][ThunkNext]_vars

(* ======================= properties of the model ====================== *)
\* The compute closure of a memo, wherever it currently is: on the entity,
\* or held by send_signal while it executes.
Closure(m) == IF pc = "exec" /\ m = sub THEN calculation ELSE memo[m]

\* The value derive_fn gives on the inputs as stored in d.
Derived(d, m) ==
    LET c == Closure(m) IN
    derive_fn(c.f, [i \in 1..Len(c.inputs) |-> d[c.inputs[i]]])

Memos == {m \in Cells : handle[m] = "memo"}

Range(q) == {q[i] : i \in 1..Len(q)}

\* m declares s as one of its inputs.
Reads(m, s) == m \in Memos /\ s \in Range(Closure(m).inputs)

\* m depends on s through one or more memos (inputs are older entities).
RECURSIVE DependsOn(_, _)
DependsOn(m, s) ==
    /\ m \in Memos
    /\ \E i \in Range(Closure(m).inputs) : i = s \/ DependsOn(i, s)

\* The value a cell has once every memo is a function of the current
\* signal values.
RECURSIVE Settled(_)
Settled(c) ==
    IF c \in Memos
    THEN LET m == Closure(c) IN
         derive_fn(m.f, [i \in 1..Len(m.inputs) |-> Settled(m.inputs[i])])
    ELSE data[c]

\* The last call was the first (FirstWrite) or the second (SecondWrite) of
\* two consecutive send_signal(s, v) with v different from the value of s
\* before them.
FirstWrite ==
    /\ pc = "idle" /\ call.op = "send_signal"
    /\ Len(streak.vals) = 1 /\ streak.vals[1] # streak.v0
SecondWrite ==
    /\ pc = "idle" /\ call.op = "send_signal"
    /\ Len(streak.vals) = 2 /\ streak.vals[1] # streak.v0
    /\ streak.vals[2] = streak.vals[1]

(* ---- C1 ---- *)
\* C1: whenever a public call has returned, every memo's stored value is
\* its compute function applied to the current values of its inputs.
C1_MemoConsistency ==
    pc = "idle" => \A m \in Memos : data[m] = Derived(data, m)

C1_Witness ==
    /\ pc = "idle" /\ call.op = "send_signal" /\ nCalls >= 2
    /\ \E m \in Memos : runs[m] >= 1 /\ m < spawned

(* ---- C2 ---- *)
\* C2: send_signal(s, v) with v equal to the current value of s runs no
\* compute function, pushes nothing, queues nothing and changes no value
\* and no subscriber list.
C2_DiffSuppression ==
    [][(/\ pc = "idle"
        /\ call'.op = "send_signal"
        /\ nCalls' = nCalls + 1
        /\ call'.val = data[call'.cell])
       => (/\ UNCHANGED <<data, subscribers, queue, stack, memo, effect,
                         log, pc>>
           /\ runs' = NoRuns)]_vars

C2_Witness ==
    /\ pc = "idle" /\ call.op = "send_signal"
    /\ streak.vals = <<streak.v0>>
    /\ subscribers[call.cell] # <<>>
    /\ effect[call.cell] # NoEffect

(* ---- C3 ---- *)
\* C3 as stated: of two identical value-changing writes, the first runs
\* every transitive dependent of s exactly once and the second runs none.
C3_ExactlyOnce ==
    /\ FirstWrite => \A m \in Memos :
           DependsOn(m, streak.cell) => runs[m] = 1
    /\ SecondWrite => \A m \in Memos : runs[m] = 0

\* C3 amended: the first write runs every memo that declares s as an input
\* at least once and runs only dependents of s; the second write runs none.
C3_Idempotent ==
    /\ FirstWrite => \A m \in Memos :
           /\ Reads(m, streak.cell) => runs[m] >= 1
           /\ runs[m] >= 1 => DependsOn(m, streak.cell)
    /\ SecondWrite => \A m \in Memos : runs[m] = 0

C3_Witness ==
    /\ SecondWrite
    /\ \E m \in Memos : \E k \in Memos :
           Reads(m, streak.cell) /\ Reads(k, m)

(* ---- C4 ---- *)
\* C4: during a write, a value stored into a memo is never computed from a
\* mixture of updated and stale inputs: it is the memo's settled value.
C4_GlitchFree ==
    [][pc = "exec" =>
          \A m \in Memos : data'[m] # data[m] => data'[m] = Settled(m)]_vars

(* ---- C5 ---- *)
\* C5: a memo re-executed to a value equal to its stored one keeps its
\* value and its subscriber list; nothing is pushed and nothing is queued.
C5_CascadeCutOff ==
    [][(pc = "exec" /\ Derived(data, sub) = data[sub])
       => (/\ data'[sub] = data[sub]
           /\ subscribers'[sub] = subscribers[sub]
           /\ stack' = stack
           /\ queue' = queue)]_vars

C5_Witness ==
    /\ pc \in {"idle", "loop"} /\ call.op = "send_signal"
    /\ sub \in Memos /\ runs[sub] >= 1
    /\ subscribers[sub] # <<>>
    /\ effect[sub] # NoEffect

(* ---- C6 ---- *)
\* C6: new_signal(v) gives a cell that reads v and has no subscribers, and
\* read(s) = v right after send_signal(s, v) returns.
C6_WriteReadRoundTrip ==
    /\ (pc = "idle" /\ call.op = "new_signal")
           => read(call.cell) = call.val /\ subscribers[call.cell] = <<>>
    /\ (pc = "idle" /\ call.op = "send_signal")
           => read(call.cell) = call.val

C6_Witness ==
    /\ FirstWrite
    /\ \E m \in Memos : runs[m] >= 1

(* ---- C7 ---- *)
\* C7: new_memo runs f exactly once; on return the memo holds f of the
\* current inputs and is in the subscriber list of every declared input.
C7_NewMemo ==
    (pc = "idle" /\ call.op = "new_memo") =>
        LET m == call.cell IN
        /\ runs[m] = 1
        /\ \A c \in Cells \ {m} : runs[c] = 0
        /\ data[m] = Derived(data, m)
        /\ \A i \in Range(memo[m].inputs) : m \in Range(subscribers[i])

C7_Witness ==
    /\ pc = "idle" /\ call.op = "new_memo"
    /\ Len(memo[call.cell].inputs) = 2
    /\ \E i \in Range(memo[call.cell].inputs) : i \in Memos

(* ---- C8 ---- *)
\* C8: effect closures run only inside the flush: the main world is only
\* touched, and an effect system only changes state, while flushing.
C8_EffectsDeferred ==
    [][(log' # log
        \/ \E c \in Cells : effect[c] # NoEffect /\ effect'[c] = "Initialized"
                            /\ effect[c] # "Initialized")
       => pc = "flush"]_vars

C8_Witness ==
    /\ pc = "idle" /\ call.op = "send_signal"
    /\ queue # <<>>
    /\ queue[Len(queue)].observable \in Memos
    /\ log # <<>>

(* ---- C9 ---- *)
Alternating(vals, v0) ==
    \A i \in 1..Len(vals) : vals[i] # (IF i = 1 THEN v0 ELSE vals[i - 1])

Same(vals, v0) ==
    /\ Len(vals) >= 1 /\ vals[1] # v0
    /\ \A i \in 1..Len(vals) : vals[i] = vals[1]

\* C9: N writes of alternating values to one effect-carrying signal queue
\* exactly N thunks for it; N writes of one (new) value queue exactly 1.
C9_EffectBatching ==
    (pc = "idle" /\ streak.cell # 0 /\ effect[streak.cell] # NoEffect) =>
        LET added == Thunks(queue, streak.cell) - streak.q0 IN
        /\ Alternating(streak.vals, streak.v0) => added = Len(streak.vals)
        /\ Same(streak.vals, streak.v0) => added = 1

C9_Witness ==
    /\ pc = "idle" /\ streak.cell # 0 /\ effect[streak.cell] # NoEffect
    /\ Len(streak.vals) >= 3
    /\ Alternating(streak.vals, streak.v0)

(* ---- C10 ---- *)
\* C10 as stated (I6): between public calls the queue never holds two
\* thunks for the same cell.
C10_OneThunkPerCell ==
    pc = "idle" => \A c \in Cells : Thunks(queue, c) <= 1

\* C10 amended: the queue gains exactly one thunk for every value change
\* of an effect-carrying cell, in order, and none for an update that
\* leaves the value equal; only the start of a flush removes thunks.
C10_OneThunkPerChange ==
    [][LET changed == {c \in Cells : /\ data[c] # NoData
                                     /\ data'[c] # data[c]
                                     /\ effect[c] # NoEffect}
       IN  \/ \E c \in changed :
                 queue' = Append(queue, [observable |-> c, value |-> data'[c]])
           \/ changed = {} /\ queue' = queue
           \/ changed = {} /\ pc = "idle" /\ call'.op = "flush"
                 /\ queue' = <<>> /\ effects' = queue]_vars

C10_Witness ==
    /\ pc = "idle"
    /\ \E c \in Memos : Thunks(queue, c) >= 2

(* ---- C11 ---- *)
\* The observables of a list of thunks (or of log entries), in order.
Obs(q) == [i \in 1..Len(q) |-> q[i].observable]

\* Every thunk ever queued, in the order run so far, then still to be run
\* by the flush in progress, then still queued.
Thunked == Obs(log) \o Obs(effects) \o Obs(queue)

IsPrefix(p, q) == Len(p) <= Len(q) /\ SubSeq(q, 1, Len(p)) = p

\* C11: thunks are run in the order in which they were queued: the order
\* of run, draining and queued thunks only ever grows at its end.
C11_FifoFlush == [][IsPrefix(Thunked, Thunked')]_vars

C11_Witness ==
    /\ pc = "idle" /\ call.op = "flush"
    /\ Len(log) >= 2
    /\ log[1].observable # log[2].observable

(* ---- C12 ---- *)
\* C12: the k-th thunk run observes the value written by the k-th
\* value-changing write, i.e. the value its thunk was queued with.
C12_ObservesQueuedValue ==
    [][pc = "flush" => log' = Append(log, Head(effects))]_vars

(* ---- C13 ---- *)
\* C13: a flush takes the whole queue and leaves a fresh empty one, runs
\* each taken thunk once, in steps that never touch the fresh queue, and
\* returns only when every taken thunk has been run.
C13_TakeAndIterate ==
    [][/\ (pc = "idle" /\ call'.op = "flush" /\ nCalls' = nCalls + 1)
            => (effects' = queue /\ queue' = <<>>)
       /\ pc = "flush"
            => (/\ effects' = Tail(effects)
                /\ queue' = queue
                /\ Len(log') = Len(log) + 1
                /\ log'[Len(log')].observable = Head(effects).observable)
       /\ pc' = "idle" => effects' = <<>>
       /\ pc' = "flush" => queue' = <<>>]_vars

C13_Witness ==
    /\ pc = "flush"
    /\ log # <<>>
    /\ Len(effects) >= 1

NoDuplicates(q) == \A i, j \in 1..Len(q) : q[i] = q[j] => i = j

\* C15 (I3): after any sequence of new_memo and send_signal calls no cell
\* id appears more than once in a subscriber list.
C15_SetSemantics ==
    pc = "idle" => \A c \in Cells : NoDuplicates(subscribers[c])

(* ---- C16 ---- *)
\* C16 (I4): between public calls the ids in a cell's subscriber list are
\* exactly the memos that declare the cell as an input.
C16_SubscribersAreReaders ==
    pc = "idle" =>
        \A c \in Cells : Range(subscribers[c]) = {m \in Memos : Reads(m, c)}

C16_Witness ==
    /\ pc = "idle" /\ call.op = "send_signal"
    /\ \E m \in Memos : runs[m] >= 2
    /\ \E c \in Cells : Cardinality(Range(subscribers[c])) >= 2

(* ---- C17 ---- *)
\* C17: every send_signal terminates and returns only with an empty work
\* stack.  Termination is by a variant: a loop iteration removes one
\* pending entry and pushes only entities spawned after the one it
\* executed, so the pending entries decrease in the lexicographic order of
\* their counts per entity (oldest first), which is well-founded.
C17_Termination ==
    [][/\ pc' = "idle" => stack' = <<>>
       /\ pc = "loop" => Len(stack') = Len(stack) - 1
       /\ pc = "exec" =>
            /\ IsPrefix(stack, stack')
            /\ \A i \in (Len(stack) + 1)..Len(stack') : stack'[i] > sub]_vars

C17_Witness ==
    /\ pc = "idle" /\ call.op = "send_signal"
    /\ \E m \in Memos : runs[m] >= 3

(* ---- C18 ---- *)
\* C18: a memo whose execution finds an input missing, or without a value
\* of the expected type, fails fatally: no memo that has executed and let
\* its caller go on has such an input, and no subscriber list holds a memo
\* with such an input.
InputsPresent(m) ==
    \A i \in 1..Len(Closure(m).inputs) :
        get_data(World, Closure(m).inputs[i]) # NoData

C18_MissingCellFatal ==
    pc # "panicked" =>
        /\ \A m \in Memos : InputsPresent(m)
        /\ \A c \in Cells : \A m \in Range(subscribers[c]) : InputsPresent(m)

C20_LifoStack ==
    [][/\ pc = "loop" =>
            /\ sub' = stack[Len(stack)]
            /\ stack' = SubSeq(stack, 1, Len(stack) - 1)
       /\ pc = "exec" =>
            stack' = stack \o (IF data'[sub] # data[sub]
                               THEN subscribers[sub] ELSE <<>>)
       /\ (pc = "idle" /\ call'.op = "send_signal" /\ nCalls' = nCalls + 1) =>
            stack' = (IF data'[call'.cell] # data[call'.cell]
                      THEN subscribers[call'.cell] ELSE <<>>)]_vars

\* Memo m changed during a write and pushed its subscribers while older
\* entries were pending: sub, already executed twice in this write before
\* m ran (m's list was emptied by the change and has grown by one per
\* execution of sub since), has been executed again from the top of the
\* stack, and entries are still pending below.
C20_Witness ==
    /\ pc = "loop" /\ call.op = "send_signal"
    /\ sub \in Memos
    /\ \E m \in Memos : /\ Reads(sub, m) /\ runs[m] = 1
                        /\ runs[sub] = Len(subscribers[m]) + 2
    /\ Len(stack) >= 2

(* ---- C21 ---- *)
\* C21: a value change empties the changed cell's subscriber list and
\* pushes every entry it held on the work stack; a list otherwise changes
\* only by the executing memo (or the memo being created) appending itself.
C21_DestructiveTake ==
    [][/\ \A c \in Cells :
            (data[c] # NoData /\ data'[c] # data[c]) =>
                /\ subscribers'[c] = <<>>
                /\ stack' = (IF pc = "exec" THEN stack ELSE <<>>)
                                \o subscribers[c]
       /\ \A c \in Cells :
            \/ subscribers'[c] = subscribers[c]
            \/ data'[c] # data[c] /\ subscribers'[c] = <<>>
            \/ pc = "exec" /\ subscribers'[c] = Append(subscribers[c], sub)
            \/ /\ call'.op = "new_memo" /\ spawned' = spawned + 1
               /\ subscribers'[c] = Append(subscribers[c], spawned')]_vars

\* A memo has just changed and its subscribers have moved to the stack.
C21_Witness ==
    /\ pc = "loop" /\ sub \in Memos /\ runs[sub] >= 1
    /\ subscribers[sub] = <<>>
    /\ stack # <<>>
    /\ Reads(stack[Len(stack)], sub)

(* ---- C22 ---- *)
\* C22: the RxMemo of the memo being executed is out of its entity, every
\* other memo holds its own, so at most one is out at a time; the loop
\* puts it back when the execution returns, and outside an execution
\* (in particular between public calls) every memo holds its RxMemo.
C22_MoveOutMoveBack ==
    [][/\ pc = "exec" =>
            /\ calculation # NoMemo
            /\ memo[sub] = NoMemo
            /\ \A m \in Memos \ {sub} : memo[m] # NoMemo
            /\ memo'[sub] = calculation
            /\ calculation' = NoMemo
       /\ pc' # "exec" =>
            /\ calculation' = NoMemo
            /\ \A m \in Cells : handle'[m] = "memo" => memo'[m] # NoMemo]_vars

C22_Witness ==
    /\ pc = "exec" /\ stack # <<>>
    /\ Cardinality(Memos) >= 2

(* ---- C23 ---- *)
\* C23: a thunk leaves the observed cell with the value and the subscriber
\* list it had and with its effect, and leaves no EffectData in the main
\* world; a flush changes no cell value and no subscriber list.
C23_ThunkRestoresCell ==
    [][/\ pc = "flush" =>
            /\ data' = data
            /\ subscribers' = subscribers
            /\ \A c \in Cells : effect[c] # NoEffect => effect'[c] # NoEffect
            /\ effect_data' = NoData
       /\ (pc = "idle" /\ call'.op = "flush" /\ nCalls' = nCalls + 1) =>
            /\ data' = data
            /\ subscribers' = subscribers]_vars

\* A thunk has run on a cell that has subscribers.
C23_Witness ==
    /\ call.op = "flush" /\ log # <<>>
    /\ subscribers[log[Len(log)].observable] # <<>>

C25_WriteToAbsent ==
    [][\A c \in Cells :
         (handle'[c] = "memo" /\ data[c] = NoData /\ data'[c] # NoData) =>
            /\ data'[c] = derive_fn(memo'[c].f,
                            [i \in 1..Len(memo'[c].inputs) |->
                                data[memo'[c].inputs[i]]])
            /\ subscribers'[c] = <<>>
            /\ stack' = stack /\ stack' = <<>>
            /\ pc' = "idle"
            /\ \A m \in Cells \ {c} : runs'[m] = 0
            /\ queue' = queue]_vars

\* A memo has been created over an input that carries an effect, while
\* thunks were queued.
C25_Witness ==
    /\ pc = "idle" /\ call.op = "new_memo"
    /\ data[call.cell] # NoData
    /\ queue # <<>>
    /\ \E c \in Cells : Reads(call.cell, c) /\ effect[c] # NoEffect

(* ---- C26 ---- *)
\* C26: after a derive function has panicked during propagation every
\* handle still has a value, and the only damage to the graph is that the
\* panicking memo has no RxMemo: every other memo has its own and is still
\* subscribed to each of its inputs.
C26_PanicDamage ==
    pc = "panicked" =>
        /\ \A c \in Cells : handle[c] # "none" => data[c] # NoData
        /\ \A m \in Memos \ {sub} : memo[m] # NoMemo
        /\ \A m \in Memos \ {sub} : \A c \in Cells :
               Reads(m, c) => m \in Range(subscribers[c])

(* ---- C27 ---- *)
\* C27: during send_signal(s, v) a value changes only on s and on memos
\* that depend on s through their inputs, and only such memos have their
\* derive function run.
C27_WriteFrame ==
    [][(call'.op = "send_signal" /\ (pc # "idle" \/ nCalls' = nCalls + 1)) =>
         /\ \A c \in Cells :
                data'[c] # data[c] => (c = call'.cell \/ DependsOn(c, call'.cell))
         /\ \A m \in Cells :
                runs'[m] > 0 => DependsOn(m, call'.cell)]_vars

\* A write has changed a signal that some memo does not depend on.
C27_Witness ==
    /\ FirstWrite
    /\ \E k \in Memos : ~DependsOn(k, call.cell) /\ runs[k] = 0

(* ---- C28 ---- *)
\* C28: in whatever order the pending subscribers are executed, when
\* send_signal returns every cell holds the value determined by the graph
\* and the signal values alone, so two runs that differ only in that order
\* end with equal values.
C28_OrderIndependent ==
    pc = "idle" => \A c \in Cells : handle[c] # "none" => data[c] = Settled(c)

\* The first write to a signal with two subscribers has returned after
\* running the older subscriber first (the Vec order runs the newer first).
C28_Witness ==
    /\ FirstWrite /\ nCalls = 1
    /\ Len(subscribers[call.cell]) >= 2
    /\ subscribers[call.cell][1] < subscribers[call.cell][2]
    /\ \E m \in Memos : runs[m] >= 2

(* ---- C29 ---- *)
\* C29: new_deferred_effect runs no effect, queues no thunk and changes no
\* value and no subscriber list; a cell without an effect has no thunk
\* queued, being run or run, so changes made before the registration are
\* never reported.
C29_RegistrationIsPassive ==
    [][/\ (call'.op = "new_deferred_effect" /\ nCalls' = nCalls + 1) =>
            /\ log' = log /\ effect_data' = effect_data
            /\ queue' = queue /\ effects' = effects
            /\ data' = data /\ subscribers' = subscribers
            /\ pc' = "idle"
       /\ \A c \in Cells :
            effect'[c] = NoEffect => c \notin Range(Thunked')]_vars

\* An effect has been registered on a cell that had changed before: the
\* change is reported for a memo computed from the cell alone, not for
\* the cell.
C29_Witness ==
    /\ pc = "idle" /\ call.op = "new_deferred_effect"
    /\ call.cell \notin Range(Thunked)
    /\ \E i \in 1..Len(queue) :
           /\ queue[i].observable \in Memos
           /\ memo[queue[i].observable].inputs = <<call.cell>>

(* ---- C30 ---- *)
\* C30: an entity holds one effect; a registration on an entity that has
\* one installs the new system in its place.  From then on a value change
\* of the cell queues exactly one thunk, and every thunk that runs, runs
\* the system installed last, so a replaced system never runs again.
C30_OneEffectPerCell ==
    [][/\ (call'.op = "new_deferred_effect" /\ nCalls' = nCalls + 1) =>
            /\ system'[call'.cell] = system[call'.cell] + 1
            /\ effect'[call'.cell] = "New"
       /\ \A c \in Cells :
            (data[c] # NoData /\ data'[c] # data[c] /\ system[c] >= 2) =>
                Thunks(queue', c) = Thunks(queue, c) + 1
       /\ pc = "flush" =>
            ran' = Append(ran, [observable |-> Head(effects).observable,
                                system |-> system[Head(effects).observable]])
       /\ \A i \in 1..Len(ran') :
            i > Len(ran) => ran'[i].system = system'[ran'[i].observable]]_vars

\* A flush has run the second system registered on a cell.
C30_Witness ==
    /\ call.op = "flush"
    /\ \E i \in 1..Len(ran) : ran[i].system = 2

\* C31: a thunk whose cell has no value entry changes nothing in either
\* world; a thunk whose cell has a value entry but no effect runs nothing
\* and leaves the cell's value and subscriber list in place; in both cases
\* the drain goes on with the thunk that follows.
C31_ThunkWithoutTarget ==
    [][(pc = "flush" /\ effects # <<>>) =>
         LET o == Head(effects).observable
         IN /\ data[o] = NoData =>
                 UNCHANGED <<data, subscribers, effect, log, ran, inits,
                             effect_data, system, queue>>
            /\ (data[o] # NoData /\ effect[o] = NoEffect) =>
                 /\ UNCHANGED <<log, ran, inits, effect_data>>
                 /\ data'[o] = data[o]
                 /\ subscribers'[o] = subscribers[o]
                 /\ UNCHANGED <<data, subscribers, effect, system, queue>>
            /\ (data[o] = NoData \/ effect[o] = NoEffect) =>
                 /\ effects' = Tail(effects)
                 /\ pc' = IF Tail(effects) = <<>> THEN "idle" ELSE "flush"]_vars

\* The first thunk of a flush ran nothing although every cell has its
\* value and no slot is Empty, so its cell has no effect; the value and
\* the subscriber of every cell are in place and the next thunk is due.
C31_Witness ==
    /\ pc = "flush"
    /\ Len(effects) = MaxThunks - 1
    /\ log = <<>>
    /\ \A c \in Cells : /\ data[c] # NoData
                        /\ effect[c] # "Empty"
                        /\ subscribers[c] = <<(c % MaxCells) + 1>>
    /\ effect[Head(effects).observable] = "New"

\* C32: a memo is never installed over a tuple that names a cell twice:
\* a creation that does not return a handle has failed fatally, and it
\* has installed no value for the new entity, given it no closure and
\* added no entry to any subscriber list.
C32_DuplicateRejected ==
    /\ [](\A m \in Cells : memo[m] # NoMemo => ~aliased(memo[m].inputs))
    /\ [][(call'.op = "new_memo" /\ spawned' = spawned + 1
           /\ handle'[spawned'] = "none") =>
            /\ pc' = "panicked"
            /\ data'[spawned'] = NoData
            /\ memo'[spawned'] = NoMemo
            /\ \A c \in Cells : spawned' \notin Range(subscribers'[c])
            /\ UNCHANGED <<data, subscribers, memo, handle>>]_vars

\* A creation over a repeated input has failed although that input
\* exists, has a value and already has a subscriber.
C32_Witness ==
    /\ pc = "panicked"
    /\ call.op = "new_memo"
    /\ handle[call.cell] = "none"
    /\ data[call.cell] = NoData
    /\ \E a \in Cells : /\ a < call.cell
                        /\ data[a] # NoData
                        /\ subscribers[a] # <<>>
                        /\ call.cell \notin Range(subscribers[a])

\* C33: the first run of a New system initializes it and leaves it
\* Initialized, every later run leaves it Initialized without
\* initializing it again, so a system is Initialized exactly when it has
\* been initialized once; a run of an Empty slot runs nothing and leaves
\* it Empty, and no run leaves a slot Empty that was not Empty before.
C33_EffectSystemLifeCycle ==
    /\ [](\A c \in Cells :
             inits[c] = IF effect[c] = "Initialized" THEN 1 ELSE 0)
    /\ [][(pc = "flush" /\ effects # <<>>
           /\ data[Head(effects).observable] # NoData) =>
            LET o == Head(effects).observable
            IN /\ effect[o] = "New" =>
                    /\ effect'[o] = "Initialized"
                    /\ inits'[o] = inits[o] + 1
                    /\ Len(ran') = Len(ran) + 1
               /\ effect[o] = "Initialized" =>
                    /\ effect'[o] = "Initialized"
                    /\ inits'[o] = inits[o]
                    /\ Len(ran') = Len(ran) + 1
               /\ effect[o] = "Empty" =>
                    /\ effect'[o] = "Empty"
                    /\ UNCHANGED <<log, ran, inits, data, subscribers>>
               /\ \A c \in Cells :
                      effect'[c] = "Empty" => effect[c] = "Empty"]_vars

\* One system has run twice in a flush (New at its first run, Initialized
\* at its second) and has been initialized once, next to an Empty slot
\* that is still Empty.
C33_Witness ==
    /\ call.op = "flush"
    /\ pc = "idle"
    /\ Len(ran) = 2
    /\ ran[1] = ran[2]
    /\ effect[ran[1].observable] = "Initialized"
    /\ inits[ran[1].observable] = 1
    /\ \E c \in Cells : effect[c] = "Empty" /\ data[c] # NoData

====
